---- MODULE Spec2Model ----
(***************************************************************************)
(* Model of the quiz-attempt screen (QuizAttempt, app/quiz/[id].tsx).      *)
(* The React component state is the set of useState cells; the pending     *)
(* setTimeout of the timer effect, the open native alerts and the POST     *)
(* requests in flight are modelled explicitly.  An event handler together  *)
(* with the re-render and the effects it triggers is one atomic action     *)
(* (JavaScript is single-threaded and React flushes effects before the     *)
(* next event is handled).                                                 *)
(*                                                                         *)
(* The module also holds the auth store (store/authStore.ts) with the app  *)
(* start, login and logout handlers that drive it, and the text-prompt     *)
(* modal of the subject screen (app/subject/[id].tsx).  Each component has *)
(* its own next-state relation; the others' variables stay unchanged.      *)
(***************************************************************************)
EXTENDS Integers, Sequences, FiniteSets, TLC

\* ---------------------------------------------------------------- bounds
MaxQuestions == 2      \* quizzes have 1..MaxQuestions questions
MaxOptions == 2        \* option indices 0..MaxOptions-1
MaxTimeLimit == 1      \* time_limit_mins in 0..MaxTimeLimit
MaxRequests == 1       \* the Submit button is pressed only while fewer requests were sent
MaxTotal == 23         \* results of quizzes with 1..MaxTotal questions are displayed
MaxTokens == 2         \* the backend issues session tokens 1..MaxTokens
MaxPromptRequests == 2 \* promptForTitle is called at most this often in a session
MaxCqQuestions == 2    \* addQuestion is offered up to this many questions
MaxCqSubmits == 2      \* POST /quiz is sent at most this often

\* ------------------------------------------------------ program constants
SecondsPerMinute == 60
Unanswered == -1

NoTimer == -1
RouteId == 1           \* the id route parameter: the quiz the screen was opened for
NoQuiz == [loaded |-> FALSE, quiz_id |-> 0, n |-> 0, limit |-> 0]
NoResult == [present |-> FALSE, score |-> 0, total |-> 0]

VARIABLES
    quiz,         \* useState<Quiz | null>
    answers,      \* useState<number[]>  (1-based here, 0-based in the code)
    timeLeft,     \* useState(0)
    started,      \* useState(false)
    loading,      \* useState(true)
    submitting,   \* useState(false)
    showResult,   \* useState(false)
    result,       \* useState<any>(null)
    mounted,      \* the screen is mounted (its state cells exist)
    loadPending,  \* GET /quiz/detail/{id} is in flight
    timer,        \* value of timeLeft captured by the pending setTimeout, or NoTimer
    prompts,      \* open 'Incomplete' alerts: the quiz and answers of their submitQuiz closure
    errors,       \* number of open 'Error' alerts
    inflight,     \* POST /quiz/attempt requests in flight: their answers_json
    sentCount,    \* number of POST /quiz/attempt requests sent so far
    backs,        \* number of router.back() calls made by the screen
    \* ---- auth store and its callers
    user,         \* store.user: NoUser or the id of the signed-in user
    token,        \* store.token: NoToken or a session token
    isLoading,    \* store.isLoading
    stored,       \* AsyncStorage item 'session_token': NoToken or a token
    route,        \* the screen the router shows
    layoutPc,     \* position of the loadAuth call of RootLayout's effect
    indexPc,      \* position of Index.initAuth / checkAuth
    loginPc,      \* position of the login handler with the token it persists
    logoutPc,     \* position of handleLogout with the screen it was pressed on
    loginForm,    \* the mounted login screen: its fields, loading and error
    \* ---- text-prompt modal of the subject screen
    promptModal,    \* useState(false)
    promptTitle,    \* useState('')
    promptValue,    \* useState('')
    promptCallback, \* useState(null): NoCallback, the URL callback or a request's resolve
    picker,         \* the image/document picker a handler is awaiting, or "none"
    requests,       \* the promises made by promptForTitle, in order of creation
    uploads,        \* the uploadContent calls made: type, title and url
    \* ---- quiz creation screen
    cqTitle,      \* useState(''): a text is the sequence of its characters
    cqQuestions,  \* useState<Question[]>: question, options, correct
    cqLoading,    \* useState(false)
    cqAiLoading,  \* useState(false): POST /ai/generate-quiz is in flight
    cqAlerts,     \* the alerts shown and not yet dismissed, oldest first
    cqPosts,      \* the POST /quiz requests sent: title and questions_json
    cqPending,    \* a POST /quiz request is in flight
    cqMounted     \* the screen is mounted

quizVars == <<quiz, answers, timeLeft, started, loading, submitting, showResult,
              result, mounted, loadPending, timer, prompts, errors, inflight,
              sentCount, backs>>

storeVars == <<user, token, isLoading, stored, route, layoutPc, indexPc, loginPc,
               logoutPc, loginForm>>

promptVars == <<promptModal, promptTitle, promptValue, promptCallback, picker,
                requests, uploads>>

createVars == <<cqTitle, cqQuestions, cqLoading, cqAiLoading, cqAlerts, cqPosts,
                cqPending, cqMounted>>

vars == <<quizVars, storeVars, promptVars, createVars>>

\* ---------------------------------------------------------------- helpers
RemoveAt(s, i) == [j \in 1..(Len(s) - 1) |-> IF j < i THEN s[j] ELSE s[j + 1]]

\* variant: new Array(n).fill(0)
InitialAnswers_Zero(n) == [i \in 1..n |-> 0]

\* new Array(n).fill(-1)
InitialAnswers(n) == [i \in 1..n |-> Unanswered]

\* time_limit_mins * 60
InitialTime(limit) == limit * SecondsPerMinute

\* variant: updated = [...answers]; updated.push(answerIndex)
SetAnswer_Push(ans, questionIndex, answerIndex) == Append(ans, answerIndex)

\* variant: updated = new Array(answers.length).fill(-1); updated[questionIndex] = answerIndex
SetAnswer_Fresh(ans, questionIndex, answerIndex) ==
    [i \in 1..Len(ans) |-> IF i = questionIndex + 1 THEN answerIndex ELSE Unanswered]

\* updated = [...answers]; updated[questionIndex] = answerIndex
SetAnswer(ans, questionIndex, answerIndex) ==
    [ans EXCEPT ![questionIndex + 1] = answerIndex]

\* variant: answers[0] === -1
HasUnanswered_First(ans) == Len(ans) > 0 /\ ans[1] = Unanswered

\* answers.some((a) => a === -1)
HasUnanswered(ans) == \E i \in 1..Len(ans) : ans[i] = Unanswered

\* variant: setTimeLeft(timeLeft)
TickValue_Stuck(captured) == captured

\* variant: setTimeLeft(timeLeft - 2)
TickValue_Two(captured) == IF captured > 1 THEN captured - 2 ELSE 0

\* the timeout callback: setTimeLeft(timeLeft - 1) with the captured timeLeft
TickValue(captured) == captured - 1

\* variant: if (started && timeLeft >= 0)
TimerArmed_NonNegative(st, tl) == st /\ tl >= 0

\* first branch of the timer effect
TimerArmed(st, tl) == st /\ tl > 0

\* variant: else if (timeLeft === 0)
TimerExpired_Unstarted(st, tl) == ~(st /\ tl > 0) /\ tl = 0

\* second branch of the timer effect
TimerExpired(st, tl) == st /\ ~(tl > 0) /\ tl = 0

\* ----------------------------------------------------------- result dialog
GreatJob == "Great job! Well done!"
KeepPracticing == "Keep practicing!"

\* Math.round(num / den) for num >= 0, den > 0: floor(num / den + 0.5)
RoundDiv(num, den) == (2 * num + den) \div (2 * den)

\* variant: Math.floor((result.score / result.total) * 100)
Percent_Floor(score, total) == (100 * score) \div total

\* Math.round((result.score / result.total) * 100); for the totals covered
\* here the double arithmetic is exact at the ties (a tie below total 40 is
\* a ratio k/8, exact in binary) and off by less than 1e-13 elsewhere, so
\* the integer computation agrees
Percent(score, total) == RoundDiv(100 * score, total)

\* result.score / result.total >= 0.7: the quotient is the double nearest to
\* score/total, and 0.7 is the double nearest to 7/10
PositiveMessage(score, total) == 10 * score >= 7 * total

\* the dialog's texts, rendered from result
DisplayedPercent == Percent(result.score, result.total)
DisplayedMessage ==
    IF PositiveMessage(result.score, result.total) THEN GreatJob ELSE KeepPracticing

\* ------------------------------------------------------------- submitQuiz
\* variant: only the answered questions, answers.filter((a) => a !== -1)
FormData_Answered(qz, ans) ==
    [quiz_id |-> qz.quiz_id, answers |-> SelectSeq(ans, LAMBDA a : a # Unanswered)]

\* formData: quiz_id = quiz.quiz_id, answers_json = JSON.stringify(answers)
FormData(qz, ans) == [quiz_id |-> qz.quiz_id, answers |-> ans]

\* qz, ans: the quiz and the answers of the closure; ps: the alerts the caller
\* leaves open.  setSubmitting is a no-op once the screen is unmounted.
SubmitQuiz(qz, ans, ps) ==
    /\ prompts' = ps
    /\ IF ~qz.loaded
          THEN UNCHANGED <<submitting, inflight, sentCount>>
          ELSE /\ submitting' = IF mounted THEN TRUE ELSE submitting
               /\ inflight' = Append(inflight, FormData(qz, ans))
               /\ sentCount' = sentCount + 1

\* handleSubmit of the render whose quiz is qz and whose answers are ans
HandleSubmit(qz, ans) ==
    IF HasUnanswered(ans)
       THEN /\ prompts' = Append(prompts, [quiz |-> qz, answers |-> ans])
            /\ UNCHANGED <<submitting, inflight, sentCount>>
       ELSE SubmitQuiz(qz, ans, prompts)

\* useEffect(..., [started, timeLeft]) run after started or timeLeft changed
\* to (st, tl), in the render whose quiz is qz and whose answers are ans; the
\* cleanup of the previous run has cleared the old timeout
TimerEffect(qz, st, tl, ans) ==
    IF TimerArmed(st, tl)
       THEN /\ timer' = tl
            /\ UNCHANGED <<prompts, submitting, inflight, sentCount>>
       ELSE IF TimerExpired(st, tl)
               THEN /\ timer' = NoTimer
                    /\ HandleSubmit(qz, ans)
               ELSE /\ timer' = NoTimer
                    /\ UNCHANGED <<prompts, submitting, inflight, sentCount>>

\* ======================================================================
\* Auth store (store/authStore.ts) and the handlers that drive it
\* ======================================================================
NoUser == 0
NoToken == 0
Users == 1..MaxTokens        \* the backend's user ids, one per session it can issue
Tokens == 1..MaxTokens

RouteIndex == "/"
RouteRoleSelection == "/login/role-selection"
RouteTabs == "/(tabs)"

HandlerIdle == [pc |-> "idle", token |-> NoToken, behindLogout |-> FALSE]
LogoutIdle == [pc |-> "idle", screen |-> "none"]

\* create<AuthState>: the store of a freshly started app; nothing persisted
\* the login screens: (auth)/login, login/student and login/teacher
LoginScreens == {"generic", "student", "teacher"}
FieldTexts == {"", "a"}          \* what the user types into a field
FillAllFields == "Please fill all fields"
LoginFailed == "Login failed"
Details == {"", "Invalid credentials"}  \* error.response?.data?.detail, "" when absent

\* the useState cells of a freshly mounted login screen
BlankForm(screen) ==
    [screen |-> screen, email |-> "", password |-> "", batchCode |-> "",
     loading |-> FALSE, error |-> ""]

\* no login screen is mounted
NoForm == BlankForm("none")

\* the fields handleLogin requires: batchCode on the student screen only
RequiredFields(screen) ==
    IF screen = "student" THEN {"email", "password", "batchCode"}
                          ELSE {"email", "password"}

\* variant: the student screen does not require the batch code
Incomplete_NoBatchCode(form) == form.email = "" \/ form.password = ""

\* !email || !password (|| !batchCode)
Incomplete(form) == \E f \in RequiredFields(form.screen) : form[f] = ""

\* error.response?.data?.detail || 'Login failed'
ErrorOf(detail) == IF detail = "" THEN LoginFailed ELSE detail

InitStore ==
    /\ user = NoUser
    /\ token = NoToken
    /\ isLoading = TRUE
    /\ stored = NoToken
    /\ route = RouteIndex
    /\ layoutPc = "loadAuth"
    /\ indexPc = "loadAuth"
    /\ loginPc = HandlerIdle
    /\ logoutPc = LogoutIdle
    /\ loginForm = NoForm

\* the app process ends and is started again: the store is rebuilt, the
\* handlers in flight are gone, AsyncStorage keeps its item
AppRestart ==
    /\ user' = NoUser
    /\ token' = NoToken
    /\ isLoading' = TRUE
    /\ route' = RouteIndex
    /\ layoutPc' = "loadAuth"
    /\ indexPc' = "loadAuth"
    /\ loginPc' = HandlerIdle
    /\ logoutPc' = LogoutIdle
    /\ loginForm' = NoForm
    /\ UNCHANGED stored
    /\ UNCHANGED <<quizVars, promptVars, createVars>>

\* RootLayout's effect: loadAuth's getItem resolves; a token changed under
\* a mounted Index is the one Index loaded itself, so its effect is not re-run
RootLoadAuth ==
    /\ layoutPc = "loadAuth"
    /\ token' = IF stored # NoToken THEN stored ELSE token
    /\ isLoading' = FALSE
    /\ layoutPc' = "done"
    /\ UNCHANGED <<user, stored, route, indexPc, loginPc, logoutPc>>
    /\ UNCHANGED <<loginForm, quizVars, promptVars, createVars>>

\* variant: the catch block only logs the error
RootLoadAuthFail_KeepsLoading ==
    /\ layoutPc = "loadAuth"
    /\ isLoading' = isLoading
    /\ layoutPc' = "done"
    /\ UNCHANGED <<user, token, stored, route, indexPc, loginPc, logoutPc>>
    /\ UNCHANGED <<loginForm, quizVars, promptVars, createVars>>

\* RootLayout's effect: loadAuth's getItem rejects
RootLoadAuthFail ==
    /\ layoutPc = "loadAuth"
    /\ isLoading' = FALSE
    /\ layoutPc' = "done"
    /\ UNCHANGED <<user, token, stored, route, indexPc, loginPc, logoutPc>>
    /\ UNCHANGED <<loginForm, quizVars, promptVars, createVars>>

\* variant: checkAuth requests /auth/me whatever the token is
CheckAuth_AlwaysMe(tok) ==
    /\ route' = route
    /\ indexPc' = "me"

\* Index.checkAuth of the render whose store token is tok
CheckAuth(tok) ==
    IF tok = NoToken
       THEN /\ route' = RouteRoleSelection
            /\ indexPc' = "done"
       ELSE /\ route' = route
            /\ indexPc' = "me"

\* Index.initAuth: loadAuth's getItem resolves, isReady becomes true and the
\* effect calls checkAuth
IndexLoadAuth ==
    /\ route = RouteIndex
    /\ indexPc = "loadAuth"
    /\ token' = IF stored # NoToken THEN stored ELSE token
    /\ isLoading' = FALSE
    /\ CheckAuth(token')
    /\ UNCHANGED <<user, stored, loginPc, logoutPc, layoutPc>>
    /\ UNCHANGED <<loginForm, quizVars, promptVars, createVars>>

\* loadAuth's getItem rejects: catch sets isLoading false only
IndexLoadAuthFail ==
    /\ route = RouteIndex
    /\ indexPc = "loadAuth"
    /\ isLoading' = FALSE
    /\ CheckAuth(token)
    /\ UNCHANGED <<user, token, stored, loginPc, logoutPc, layoutPc>>
    /\ UNCHANGED <<loginForm, quizVars, promptVars, createVars>>

\* checkAuth: GET /auth/me resolves with the user u
IndexMeSucceed(u) ==
    /\ route = RouteIndex
    /\ indexPc = "me"
    /\ user' = u
    /\ route' = RouteTabs
    /\ indexPc' = "done"
    /\ UNCHANGED <<token, isLoading, stored, loginPc, logoutPc, layoutPc>>
    /\ UNCHANGED <<loginForm, quizVars, promptVars, createVars>>

\* checkAuth: GET /auth/me rejects
IndexMeFail ==
    /\ route = RouteIndex
    /\ indexPc = "me"
    /\ route' = RouteRoleSelection
    /\ indexPc' = "done"
    /\ UNCHANGED <<user, token, isLoading, stored, loginPc, logoutPc, layoutPc>>
    /\ UNCHANGED <<loginForm, quizVars, promptVars, createVars>>

\* a login screen is opened from the role selection
OpenLogin(screen) ==
    /\ route = RouteRoleSelection
    /\ loginPc.pc = "idle"
    /\ loginForm' = BlankForm(screen)
    /\ UNCHANGED <<user, token, isLoading, stored, route, indexPc, loginPc,
                   logoutPc, layoutPc>>
    /\ UNCHANGED <<quizVars, promptVars, createVars>>

\* onChangeText of a field of the login screen
LoginChangeText(field, text) ==
    /\ route = RouteRoleSelection
    /\ loginForm.screen \in LoginScreens
    /\ field \in RequiredFields(loginForm.screen)
    /\ loginPc.pc = "idle"
    /\ loginForm' = [loginForm EXCEPT ![field] = text]
    /\ UNCHANGED <<user, token, isLoading, stored, route, indexPc, loginPc,
                   logoutPc, layoutPc>>
    /\ UNCHANGED <<quizVars, promptVars, createVars>>

\* handleLogin of the mounted login screen (the button is disabled while
\* loading): an empty field shows the error and returns, otherwise the POST
\* is sent and awaited
HandleLogin ==
    /\ route = RouteRoleSelection
    /\ loginForm.screen \in LoginScreens
    /\ loginPc.pc = "idle"
    /\ IF Incomplete(loginForm)
          THEN /\ loginForm' = [loginForm EXCEPT !.error = FillAllFields]
               /\ loginPc' = loginPc
          ELSE /\ loginForm' = [loginForm EXCEPT !.loading = TRUE, !.error = ""]
               /\ loginPc' = [pc |-> "post", token |-> NoToken,
                              behindLogout |-> FALSE]
    /\ UNCHANGED <<user, token, isLoading, stored, route, indexPc, logoutPc,
                   layoutPc>>
    /\ UNCHANGED <<quizVars, promptVars, createVars>>

\* AsyncStorage performs its operations one after the other in the order of
\* the calls, so a write is visible to every later operation: its effect on
\* the item is taken at the call, the resolution of its promise comes later.

\* setToken(t) up to its await: set({ token }), then setItem (removeItem
\* for a null token) is called
SetTokenCall(t) ==
    /\ token' = t
    /\ stored' = t

\* logout() up to its await: removeItem is called
LogoutCall == stored' = NoToken

\* the promises of AsyncStorage resolve in the order of the calls: a setItem
\* called while logout's removeItem is pending resolves behind it
SetItemPending(t) ==
    [pc |-> "setItem", token |-> t, behindLogout |-> logoutPc.pc = "removeItem"]

\* the setItem of setToken is the next storage promise to resolve
SetItemResolves == loginPc.pc = "setItem" /\ ~loginPc.behindLogout

\* the removeItem of logout is the next storage promise to resolve
RemoveItemResolves ==
    /\ logoutPc.pc = "removeItem"
    /\ loginPc.pc = "setItem" => loginPc.behindLogout

\* the handler of setToken once logout's removeItem has resolved
AheadOfSetItem == [loginPc EXCEPT !.behindLogout = FALSE]

\* logout() after its await: set({ user: null, token: null })
LogoutSet ==
    /\ user' = NoUser
    /\ token' = NoToken

\* the login POST resolves: setUser(user); setToken(session_token) sets the
\* store's token and starts AsyncStorage.setItem
LoginPostSucceed(u, t) ==
    /\ loginPc.pc = "post"
    /\ user' = u
    /\ SetTokenCall(t)
    /\ loginPc' = SetItemPending(t)
    /\ UNCHANGED <<isLoading, route, indexPc, logoutPc, layoutPc>>
    /\ UNCHANGED <<loginForm, quizVars, promptVars, createVars>>

\* the login POST rejects: catch shows the error, finally ends the loading
LoginPostFail(detail) ==
    /\ loginPc.pc = "post"
    /\ loginPc' = HandlerIdle
    /\ loginForm' = [loginForm EXCEPT !.error = ErrorOf(detail),
                                      !.loading = FALSE]
    /\ UNCHANGED <<user, token, isLoading, stored, route, indexPc, logoutPc,
                   layoutPc>>
    /\ UNCHANGED <<quizVars, promptVars, createVars>>

\* setToken's setItem resolves; the handler goes on to router.replace('/(tabs)'),
\* which unmounts the login screen
LoginSetItemDone ==
    /\ SetItemResolves
    /\ route' = RouteTabs
    /\ loginPc' = HandlerIdle
    /\ loginForm' = NoForm
    /\ UNCHANGED <<user, token, isLoading, stored, indexPc, logoutPc, layoutPc>>
    /\ UNCHANGED <<quizVars, promptVars, createVars>>

\* handleLogout of Home or Profile (rendered only with a user): the POST
\* /auth/logout is sent and awaited
HandleLogout(screen) ==
    /\ route = RouteTabs
    /\ user # NoUser
    /\ logoutPc.pc \in {"idle", "done", "rejected"}
    /\ logoutPc' = [pc |-> "post", screen |-> screen]
    /\ UNCHANGED <<user, token, isLoading, stored, route, indexPc, loginPc,
                   layoutPc>>
    /\ UNCHANGED <<loginForm, quizVars, promptVars, createVars>>

\* POST /auth/logout resolves: logout() starts AsyncStorage.removeItem
LogoutPostSucceed ==
    /\ logoutPc.pc = "post"
    /\ LogoutCall
    /\ logoutPc' = [logoutPc EXCEPT !.pc = "removeItem"]
    /\ UNCHANGED <<user, token, isLoading, route, indexPc, loginPc, layoutPc>>
    /\ UNCHANGED <<loginForm, quizVars, promptVars, createVars>>

\* POST /auth/logout rejects: the await throws out of handleLogout, which
\* has no try/catch; the handler ends as a rejected promise
LogoutPostFail ==
    /\ logoutPc.pc = "post"
    /\ logoutPc' = [logoutPc EXCEPT !.pc = "rejected"]
    /\ UNCHANGED <<user, token, isLoading, stored, route, indexPc, loginPc,
                   layoutPc>>
    /\ UNCHANGED <<loginForm, quizVars, promptVars, createVars>>

\* logout(): removeItem resolves, set({ user: null, token: null }); then the
\* handler's router.replace: Home to the role selection, Profile to '/'
LogoutRemoveDone ==
    /\ RemoveItemResolves
    /\ LogoutSet
    /\ loginPc' = AheadOfSetItem
    /\ IF logoutPc.screen = "Home"
          THEN /\ route' = RouteRoleSelection
               /\ indexPc' = indexPc
          ELSE /\ route' = RouteIndex
               /\ indexPc' = "loadAuth"
    /\ logoutPc' = [logoutPc EXCEPT !.pc = "done"]
    /\ UNCHANGED <<isLoading, stored, layoutPc>>
    /\ UNCHANGED <<loginForm, quizVars, promptVars, createVars>>

NextAuth ==
    \/ AppRestart
    \/ RootLoadAuth
    \/ RootLoadAuthFail
    \/ IndexLoadAuth
    \/ IndexLoadAuthFail
    \/ \E u \in Users : IndexMeSucceed(u)
    \/ IndexMeFail
    \/ \E screen \in LoginScreens : OpenLogin(screen)
    \/ \E field \in {"email", "password", "batchCode"}, text \in FieldTexts :
          LoginChangeText(field, text)
    \/ HandleLogin
    \/ \E u \in Users, t \in Tokens : LoginPostSucceed(u, t)
    \/ \E detail \in Details : LoginPostFail(detail)
    \/ LoginSetItemDone
    \/ \E screen \in {"Home", "Profile"} : HandleLogout(screen)
    \/ LogoutPostSucceed
    \/ LogoutPostFail
    \/ LogoutRemoveDone

\* ---------------------------------------------- the store called directly
\* setUser(u)
StoreSetUser(u) ==
    /\ user' = u
    /\ UNCHANGED <<token, isLoading, stored, route, layoutPc, indexPc, loginPc,
                   logoutPc>>
    /\ UNCHANGED <<loginForm, quizVars, promptVars, createVars>>

\* setToken(t) is called, t a token or null
StoreSetToken(t) ==
    /\ loginPc.pc = "idle"
    /\ SetTokenCall(t)
    /\ loginPc' = SetItemPending(t)
    /\ UNCHANGED <<user, isLoading, route, layoutPc, indexPc, logoutPc>>
    /\ UNCHANGED <<loginForm, quizVars, promptVars, createVars>>

\* the promise of setToken resolves
StoreSetTokenDone ==
    /\ SetItemResolves
    /\ loginPc' = HandlerIdle
    /\ UNCHANGED <<user, token, isLoading, stored, route, layoutPc, indexPc,
                   logoutPc>>
    /\ UNCHANGED <<loginForm, quizVars, promptVars, createVars>>

\* logout() is called
StoreLogout ==
    /\ logoutPc.pc \in {"idle", "done"}
    /\ LogoutCall
    /\ logoutPc' = [pc |-> "removeItem", screen |-> "none"]
    /\ UNCHANGED <<user, token, isLoading, route, layoutPc, indexPc, loginPc>>
    /\ UNCHANGED <<loginForm, quizVars, promptVars, createVars>>

\* logout()'s removeItem resolves: the store is cleared
StoreLogoutDone ==
    /\ RemoveItemResolves
    /\ LogoutSet
    /\ loginPc' = AheadOfSetItem
    /\ logoutPc' = [logoutPc EXCEPT !.pc = "done"]
    /\ UNCHANGED <<isLoading, stored, route, layoutPc, indexPc>>
    /\ UNCHANGED <<loginForm, quizVars, promptVars, createVars>>

\* the store with callers that use setUser, setToken and logout in any
\* order, one call of each in progress at a time; loadAuth is the one of
\* RootLayout and the storage can be read
NextStore ==
    \/ AppRestart
    \/ RootLoadAuth
    \/ \E u \in Users \cup {NoUser} : StoreSetUser(u)
    \/ \E t \in Tokens \cup {NoToken} : StoreSetToken(t)
    \/ StoreSetTokenDone
    \/ StoreLogout
    \/ StoreLogoutDone

\* ======================================================================
\* Text-prompt modal of the subject screen (app/subject/[id].tsx)
\* ======================================================================
NoCallback == [kind |-> "null", req |-> 0]
UrlCallback == [kind |-> "url", req |-> 0]     \* the callback of handleAddVideoLink
ResolveOf(k) == [kind |-> "resolve", req |-> k] \* the resolve of request k's promise

Undefined == "<undefined>"
Texts == {"", "x", "y"}        \* what the user types into the modal's input

\* promptValue || undefined
OrUndefined(text) == IF text = "" THEN Undefined ELSE text

\* `${type} Title` for the flow's content type
TitleOf(flow) ==
    CASE flow = "photo" -> "Photo Title"
      [] flow = "document" -> "Document Title"
      [] OTHER -> "Video Title"

\* SubjectDetail after its first render
InitPrompt ==
    /\ promptModal = FALSE
    /\ promptTitle = ""
    /\ promptValue = ""
    /\ promptCallback = NoCallback
    /\ picker = "none"
    /\ requests = <<>>
    /\ uploads = <<>>

\* the floating action menu can be used: neither the modal nor a system
\* picker covers the screen
MenuUsable ==
    /\ ~promptModal
    /\ picker = "none"
    /\ Len(requests) < MaxPromptRequests

\* a handler opens its picker and awaits the result
LaunchPicker(flow) ==
    /\ MenuUsable
    /\ picker' = flow
    /\ UNCHANGED <<promptModal, promptTitle, promptValue, promptCallback,
                   requests, uploads>>
    /\ UNCHANGED <<quizVars, storeVars, createVars>>

HandleUploadPhoto == LaunchPicker("photo")

HandleUploadVideo == LaunchPicker("video")

HandleUploadDocument == LaunchPicker("document")

\* promptForTitle (Android/Web branch) called by the flow; url is the link
\* the caller will upload with the title, if any
PromptForTitle(flow, url) ==
    /\ requests' = Append(requests, [flow |-> flow, url |-> url, calls |-> 0,
                                      value |-> Undefined])
    /\ promptTitle' = TitleOf(flow)
    /\ promptValue' = ""
    /\ promptCallback' = ResolveOf(Len(requests) + 1)
    /\ promptModal' = TRUE

\* the picker returns a file: the handler asks for the title
PickerPicked ==
    /\ picker # "none"
    /\ picker' = "none"
    /\ PromptForTitle(picker, Undefined)
    /\ UNCHANGED uploads
    /\ UNCHANGED <<quizVars, storeVars, createVars>>

\* the picker is dismissed: result.canceled, the handler returns
PickerCanceled ==
    /\ picker # "none"
    /\ picker' = "none"
    /\ UNCHANGED <<promptModal, promptTitle, promptValue, promptCallback,
                   requests, uploads>>
    /\ UNCHANGED <<quizVars, storeVars, createVars>>

\* handleAddVideoLink (Android/Web branch): the modal asks for the URL
HandleAddVideoLink ==
    /\ MenuUsable
    /\ promptTitle' = "Add Video Link"
    /\ promptValue' = ""
    /\ promptCallback' = UrlCallback
    /\ promptModal' = TRUE
    /\ UNCHANGED <<picker, requests, uploads>>
    /\ UNCHANGED <<quizVars, storeVars, createVars>>

\* onChangeText={setPromptValue}
ChangeText(text) ==
    /\ promptModal
    /\ promptValue' = text
    /\ UNCHANGED <<promptModal, promptTitle, promptCallback, picker, requests,
                   uploads>>
    /\ UNCHANGED <<quizVars, storeVars, createVars>>

\* resolve of request k called with v; the first call settles the promise
\* and the awaiting handler continues: a title given, it calls uploadContent
\* (the video picker flow only shows an alert)
Resolve(k, v) ==
    /\ requests' = [requests EXCEPT ![k] =
                        [@ EXCEPT !.calls = @ + 1,
                                  !.value = IF requests[k].calls = 0 THEN v ELSE @]]
    /\ uploads' = IF requests[k].calls = 0 /\ v # Undefined /\ requests[k].flow # "video"
                      THEN Append(uploads, [type |-> requests[k].flow, title |-> v,
                                            url |-> requests[k].url])
                      ELSE uploads

\* promptCallback(v) as called by the modal's buttons, with the state
\* setters the callback runs before it returns; the caller sets promptModal
\* and promptCallback afterwards, so the callback's values for them are lost
CallPromptCallback(v) ==
    CASE promptCallback.kind = "resolve" ->
            /\ Resolve(promptCallback.req, v)
            /\ UNCHANGED <<promptTitle, promptValue>>
      [] promptCallback.kind = "url" /\ v # Undefined ->
            \* const title = await promptForTitle('Video')
            /\ requests' = Append(requests, [flow |-> "video_link", url |-> v,
                                              calls |-> 0, value |-> Undefined])
            /\ promptTitle' = TitleOf("video_link")
            /\ promptValue' = ""
            /\ UNCHANGED uploads
      [] OTHER ->
            UNCHANGED <<requests, uploads, promptTitle, promptValue>>

\* OK button
HandlePromptSubmit ==
    /\ promptModal
    /\ CallPromptCallback(OrUndefined(promptValue))
    /\ promptModal' = FALSE
    /\ promptCallback' = NoCallback
    /\ UNCHANGED picker
    /\ UNCHANGED <<quizVars, storeVars, createVars>>

\* Cancel button, or the modal's onRequestClose
HandlePromptCancel ==
    /\ promptModal
    /\ CallPromptCallback(Undefined)
    /\ promptModal' = FALSE
    /\ promptCallback' = NoCallback
    /\ UNCHANGED picker
    /\ UNCHANGED <<quizVars, storeVars, createVars>>

NextPrompt ==
    \/ HandleUploadPhoto
    \/ HandleUploadVideo
    \/ HandleUploadDocument
    \/ PickerPicked
    \/ PickerCanceled
    \/ HandleAddVideoLink
    \/ \E text \in Texts : ChangeText(text)
    \/ HandlePromptSubmit
    \/ HandlePromptCancel

\* ======================================================================
\* Quiz creation screen (CreateQuiz)
\* ======================================================================
OptionsPerQuestion == 4
Space == " "
CqTexts == {<<>>, <<Space>>, <<"a">>}     \* what the user types into a field

RECURSIVE TrimStart(_)
TrimStart(text) ==
    IF text # <<>> /\ Head(text) = Space THEN TrimStart(Tail(text)) ELSE text

RECURSIVE TrimEnd(_)
TrimEnd(text) ==
    IF text # <<>> /\ text[Len(text)] = Space
       THEN TrimEnd(SubSeq(text, 1, Len(text) - 1))
       ELSE text

\* String.prototype.trim
Trim(text) == TrimEnd(TrimStart(text))

\* variant: !text
IsBlank_EmptyOnly(text) == text = <<>>

\* !text.trim()
IsBlank(text) == Trim(text) = <<>>

\* { question: '', options: ['', '', '', ''], correct: 0 }
BlankQuestion ==
    [question |-> <<>>, options |-> [o \in 1..OptionsPerQuestion |-> <<>>],
     correct |-> 0]

\* variant: questions.filter((q) => q !== questions[index]) comparing by value
WithoutIndex_ByValue(qs, index) == SelectSeq(qs, LAMBDA q : q # qs[index + 1])

\* questions.filter((_, i) => i !== index)
WithoutIndex(qs, index) ==
    IF index + 1 \in 1..Len(qs) THEN RemoveAt(qs, index + 1) ELSE qs

\* the question lists POST /ai/generate-quiz answers with
AiQuestion(text, option) == [question |-> text, options |-> <<option>>, correct |-> 0]
AiLists == {<<>>, <<AiQuestion(<<"a">>, <<"a">>), AiQuestion(<<"a">>, <<Space>>)>>}

NoError == ""
FillRequired == "Please fill all required fields"
FillQuestions == "All questions and options must be filled"
EnterTopic == "Please enter a topic"
CreateFailed == "Failed to create quiz"
AiFailed == "AI generation failed"
QuizCreated == "Quiz created successfully!"
QuestionsGenerated == "Questions generated successfully!"
CreateDetails == {"", "Not authorized"}  \* error.response?.data?.detail, "" when absent

ErrorAlert(message) == [title |-> "Error", message |-> message]
SuccessAlert(message) == [title |-> "Success", message |-> message]

\* !q.question.trim() || q.options.some((o) => !o.trim())
QuestionIncomplete(q) ==
    IsBlank(q.question) \/ \E o \in 1..Len(q.options) : IsBlank(q.options[o])

\* the validation of handleSubmit: the message of its alert, or NoError
ValidationError(title, qs) ==
    IF IsBlank(title) \/ Len(qs) = 0
       THEN FillRequired
       ELSE IF \E k \in 1..Len(qs) : QuestionIncomplete(qs[k])
               THEN FillQuestions
               ELSE NoError

\* CreateQuiz after its first render
InitCreate ==
    /\ cqTitle = <<>>
    /\ cqQuestions = <<BlankQuestion>>
    /\ cqLoading = FALSE
    /\ cqAiLoading = FALSE
    /\ cqAlerts = <<>>
    /\ cqPosts = <<>>
    /\ cqPending = FALSE
    /\ cqMounted = TRUE

\* the screen takes input: it is mounted and no alert covers it
CreateUsable == cqMounted /\ cqAlerts = <<>>

\* onChangeText of the title
SetTitle(text) ==
    /\ CreateUsable
    /\ cqTitle' = text
    /\ UNCHANGED <<cqQuestions, cqLoading, cqAiLoading, cqAlerts, cqPosts,
                   cqPending, cqMounted>>
    /\ UNCHANGED <<quizVars, storeVars, promptVars>>

\* addQuestion
AddQuestion ==
    /\ CreateUsable
    /\ Len(cqQuestions) < MaxCqQuestions
    /\ cqQuestions' = Append(cqQuestions, BlankQuestion)
    /\ UNCHANGED <<cqTitle, cqLoading, cqAiLoading, cqAlerts, cqPosts, cqPending,
                   cqMounted>>
    /\ UNCHANGED <<quizVars, storeVars, promptVars>>

\* removeQuestion(index), from the delete button of question index, which
\* is rendered while questions.length > 1
RemoveQuestion(index) ==
    /\ CreateUsable
    /\ Len(cqQuestions) > 1
    /\ index \in 0..(Len(cqQuestions) - 1)
    /\ cqQuestions' = WithoutIndex(cqQuestions, index)
    /\ UNCHANGED <<cqTitle, cqLoading, cqAiLoading, cqAlerts, cqPosts, cqPending,
                   cqMounted>>
    /\ UNCHANGED <<quizVars, storeVars, promptVars>>

\* updateQuestion(index, field, value)
UpdateQuestion(index, field, value) ==
    /\ CreateUsable
    /\ index \in 0..(Len(cqQuestions) - 1)
    /\ cqQuestions' =
          CASE field = "question" ->
                 [cqQuestions EXCEPT ![index + 1].question = value]
            [] field = "correct" ->
                 [cqQuestions EXCEPT ![index + 1].correct = value]
            [] OTHER -> cqQuestions
    /\ UNCHANGED <<cqTitle, cqLoading, cqAiLoading, cqAlerts, cqPosts, cqPending,
                   cqMounted>>
    /\ UNCHANGED <<quizVars, storeVars, promptVars>>

\* updateOption(qIndex, oIndex, value)
UpdateOption(qIndex, oIndex, value) ==
    /\ CreateUsable
    /\ qIndex \in 0..(Len(cqQuestions) - 1)
    /\ oIndex \in 0..(Len(cqQuestions[qIndex + 1].options) - 1)
    /\ cqQuestions' = [cqQuestions EXCEPT ![qIndex + 1].options[oIndex + 1] = value]
    /\ UNCHANGED <<cqTitle, cqLoading, cqAiLoading, cqAlerts, cqPosts, cqPending,
                   cqMounted>>
    /\ UNCHANGED <<quizVars, storeVars, promptVars>>

\* handleAIGenerate with the topic typed (the button is disabled while
\* aiLoading): a blank topic shows the error, otherwise the request is sent
HandleAIGenerate(topic) ==
    /\ CreateUsable
    /\ ~cqAiLoading
    /\ IF IsBlank(topic)
          THEN /\ cqAlerts' = Append(cqAlerts, ErrorAlert(EnterTopic))
               /\ cqAiLoading' = cqAiLoading
          ELSE /\ cqAiLoading' = TRUE
               /\ cqAlerts' = cqAlerts
    /\ UNCHANGED <<cqTitle, cqQuestions, cqLoading, cqPosts, cqPending, cqMounted>>
    /\ UNCHANGED <<quizVars, storeVars, promptVars>>

\* POST /ai/generate-quiz resolves with the questions qs
AiSucceed(qs) ==
    /\ cqAiLoading
    /\ cqQuestions' = qs
    /\ cqAlerts' = Append(cqAlerts, SuccessAlert(QuestionsGenerated))
    /\ cqAiLoading' = FALSE
    /\ UNCHANGED <<cqTitle, cqLoading, cqPosts, cqPending, cqMounted>>
    /\ UNCHANGED <<quizVars, storeVars, promptVars>>

\* POST /ai/generate-quiz rejects
AiFail ==
    /\ cqAiLoading
    /\ cqAlerts' = Append(cqAlerts, ErrorAlert(AiFailed))
    /\ cqAiLoading' = FALSE
    /\ UNCHANGED <<cqTitle, cqQuestions, cqLoading, cqPosts, cqPending, cqMounted>>
    /\ UNCHANGED <<quizVars, storeVars, promptVars>>

\* handleSubmit (the button is disabled while loading): a failed validation
\* shows its error and returns, otherwise POST /quiz is sent and awaited
CreateHandleSubmit ==
    /\ CreateUsable
    /\ ~cqLoading
    /\ Len(cqPosts) < MaxCqSubmits
    /\ IF ValidationError(cqTitle, cqQuestions) # NoError
          THEN /\ cqAlerts' = Append(cqAlerts,
                                     ErrorAlert(ValidationError(cqTitle, cqQuestions)))
               /\ UNCHANGED <<cqLoading, cqPosts, cqPending>>
          ELSE /\ cqLoading' = TRUE
               /\ cqPosts' = Append(cqPosts, [title |-> cqTitle,
                                              questions |-> cqQuestions])
               /\ cqPending' = TRUE
               /\ cqAlerts' = cqAlerts
    /\ UNCHANGED <<cqTitle, cqQuestions, cqAiLoading, cqMounted>>
    /\ UNCHANGED <<quizVars, storeVars, promptVars>>

\* POST /quiz resolves: the success alert, finally ends the loading
CreatePostSucceed ==
    /\ cqPending
    /\ cqPending' = FALSE
    /\ cqAlerts' = Append(cqAlerts, SuccessAlert(QuizCreated))
    /\ cqLoading' = FALSE
    /\ UNCHANGED <<cqTitle, cqQuestions, cqAiLoading, cqPosts, cqMounted>>
    /\ UNCHANGED <<quizVars, storeVars, promptVars>>

\* POST /quiz rejects: the error alert, finally ends the loading
CreatePostFail(detail) ==
    /\ cqPending
    /\ cqPending' = FALSE
    /\ cqAlerts' = Append(cqAlerts,
                          ErrorAlert(IF detail = "" THEN CreateFailed ELSE detail))
    /\ cqLoading' = FALSE
    /\ UNCHANGED <<cqTitle, cqQuestions, cqAiLoading, cqPosts, cqMounted>>
    /\ UNCHANGED <<quizVars, storeVars, promptVars>>

\* the button of the oldest alert is pressed; the OK of 'Quiz created
\* successfully!' calls router.back(), which unmounts the screen and drops a
\* pending AI request's continuation effects on it
DismissAlert ==
    /\ cqAlerts # <<>>
    /\ cqAlerts' = Tail(cqAlerts)
    /\ IF Head(cqAlerts) = SuccessAlert(QuizCreated)
          THEN /\ cqMounted' = FALSE
               /\ cqAiLoading' = FALSE
          ELSE UNCHANGED <<cqMounted, cqAiLoading>>
    /\ UNCHANGED <<cqTitle, cqQuestions, cqLoading, cqPosts, cqPending>>
    /\ UNCHANGED <<quizVars, storeVars, promptVars>>

\* the whole screen, its question list as first rendered or as generated
NextCreate ==
    \/ \E text \in CqTexts : SetTitle(text)
    \/ \E index \in 0..(MaxCqQuestions - 1), text \in CqTexts :
          UpdateQuestion(index, "question", text)
    \/ \E qIndex \in 0..(MaxCqQuestions - 1), oIndex \in 0..(OptionsPerQuestion - 1),
          text \in CqTexts : UpdateOption(qIndex, oIndex, text)
    \/ \E topic \in CqTexts : HandleAIGenerate(topic)
    \/ \E qs \in AiLists : AiSucceed(qs)
    \/ AiFail
    \/ CreateHandleSubmit
    \/ CreatePostSucceed
    \/ \E detail \in CreateDetails : CreatePostFail(detail)
    \/ DismissAlert

\* the question list under the add and delete buttons and the edits of a
\* question's text and correct option
NextQuestions ==
    \/ AddQuestion
    \/ \E index \in 0..(MaxCqQuestions - 1) : RemoveQuestion(index)
    \/ \E index \in 0..(MaxCqQuestions - 1), text \in CqTexts :
          UpdateQuestion(index, "question", text)
    \/ \E index \in 0..(MaxCqQuestions - 1), o \in 0..(OptionsPerQuestion - 1) :
          UpdateQuestion(index, "correct", o)

\* ---------------------------------------------------------------- Init
\* QuizAttempt after its first render
InitQuiz ==
    /\ quiz = NoQuiz
    /\ answers = <<>>
    /\ timeLeft = 0
    /\ started = FALSE
    /\ loading = TRUE
    /\ submitting = FALSE
    /\ showResult = FALSE
    /\ result = NoResult
    /\ mounted = TRUE
    /\ loadPending = TRUE
    /\ timer = NoTimer
    /\ prompts = <<>>
    /\ errors = 0
    /\ inflight = <<>>
    /\ sentCount = 0
    /\ backs = 0

\* the app after construction
Init == InitQuiz /\ InitStore /\ InitPrompt /\ InitCreate

\* variant: the timer effect returns no cleanup, the timeout stays pending
Unmount_NoCleanup ==
    /\ mounted' = FALSE
    /\ timer' = timer
    /\ quiz' = NoQuiz
    /\ answers' = <<>>
    /\ timeLeft' = 0
    /\ started' = FALSE
    /\ loading' = TRUE
    /\ submitting' = FALSE
    /\ showResult' = FALSE
    /\ result' = NoResult

\* the screen is removed: the cleanup of the timer effect clears the pending
\* timeout and the state cells are discarded (shown with their initial values)
Unmount ==
    /\ mounted' = FALSE
    /\ timer' = NoTimer
    /\ quiz' = NoQuiz
    /\ answers' = <<>>
    /\ timeLeft' = 0
    /\ started' = FALSE
    /\ loading' = TRUE
    /\ submitting' = FALSE
    /\ showResult' = FALSE
    /\ result' = NoResult

\* --------------------------------------------------------------- loadQuiz
LoadSucceed(n, limit) ==
    /\ loadPending
    /\ loadPending' = FALSE
    /\ IF mounted
          THEN /\ quiz' = [loaded |-> TRUE, quiz_id |-> RouteId, n |-> n,
                           limit |-> limit]
               /\ answers' = InitialAnswers(n)
               /\ timeLeft' = InitialTime(limit)
               /\ loading' = FALSE
               /\ TimerEffect(quiz', started, timeLeft', answers')
          ELSE UNCHANGED <<quiz, answers, timeLeft, loading, timer, prompts,
                           submitting, inflight, sentCount>>
    /\ UNCHANGED <<started, showResult, result, mounted, errors, backs>>
    /\ UNCHANGED <<storeVars, promptVars, createVars>>

\* catch: Alert 'Error', router.back(); finally: setLoading(false)
LoadFail ==
    /\ loadPending
    /\ loadPending' = FALSE
    /\ errors' = errors + 1
    /\ backs' = backs + 1
    /\ Unmount
    /\ UNCHANGED <<prompts, inflight, sentCount>>
    /\ UNCHANGED <<storeVars, promptVars, createVars>>

\* ------------------------------------------------------------ UI predicates
\* no native alert covers the screen
NoAlert == prompts = <<>> /\ errors = 0

\* the quiz view (past the loading and start views) accepts touches
Interactive ==
    /\ mounted
    /\ ~loading
    /\ quiz.loaded
    /\ started
    /\ NoAlert
    /\ ~showResult

\* ------------------------------------------------------------ handleStart
HandleStart ==
    /\ mounted
    /\ ~loading
    /\ quiz.loaded
    /\ ~started
    /\ NoAlert
    /\ started' = TRUE
    /\ TimerEffect(quiz, TRUE, timeLeft, answers)
    /\ UNCHANGED <<quiz, answers, timeLeft, loading, showResult, result,
                   mounted, loadPending, errors, backs>>
    /\ UNCHANGED <<storeVars, promptVars, createVars>>

\* ----------------------------------------------------- handleAnswerChange
HandleAnswerChange(questionIndex, answerIndex) ==
    /\ Interactive
    /\ questionIndex \in 0..(quiz.n - 1)
    /\ answers' = SetAnswer(answers, questionIndex, answerIndex)
    /\ UNCHANGED <<quiz, timeLeft, started, loading, submitting, showResult,
                   result, mounted, loadPending, timer, prompts, errors,
                   inflight, sentCount,
                   backs>>
    /\ UNCHANGED <<storeVars, promptVars, createVars>>

\* ------------------------------------------------------- timeout callback
Tick ==
    /\ timer # NoTimer
    /\ timeLeft' = TickValue(timer)
    /\ TimerEffect(quiz, started, timeLeft', answers)
    /\ UNCHANGED <<quiz, answers, started, loading, showResult, result,
                   mounted, loadPending, errors, backs>>
    /\ UNCHANGED <<storeVars, promptVars, createVars>>

\* --------------------------------------- "Submit Quiz" button (handleSubmit)
PressSubmit ==
    /\ Interactive
    /\ ~submitting
    /\ sentCount < MaxRequests
    /\ HandleSubmit(quiz, answers)
    /\ UNCHANGED <<quiz, answers, timeLeft, started, loading, showResult,
                   result, mounted, loadPending, timer, errors,
                   backs>>
    /\ UNCHANGED <<storeVars, promptVars, createVars>>

\* --------------------------------------------- buttons of the 'Incomplete' alert
PromptConfirm(i) ==
    /\ i \in 1..Len(prompts)
    /\ SubmitQuiz(prompts[i].quiz, prompts[i].answers, RemoveAt(prompts, i))
    /\ UNCHANGED <<quiz, answers, timeLeft, started, loading, showResult,
                   result, mounted, loadPending, timer, errors,
                   backs>>
    /\ UNCHANGED <<storeVars, promptVars, createVars>>

PromptCancel(i) ==
    /\ i \in 1..Len(prompts)
    /\ prompts' = RemoveAt(prompts, i)
    /\ UNCHANGED <<quiz, answers, timeLeft, started, loading, submitting,
                   showResult, result, mounted, loadPending, timer, errors,
                   inflight, sentCount,
                   backs>>
    /\ UNCHANGED <<storeVars, promptVars, createVars>>

\* ------------------------------------------- completion of api.post (submitQuiz)
\* total: the number of questions of the request; score: the backend's count
SubmitSucceed(i, score) ==
    /\ i \in 1..Len(inflight)
    /\ score \in 0..Len(inflight[i].answers)
    /\ inflight' = RemoveAt(inflight, i)
    /\ IF mounted
          THEN /\ result' = [present |-> TRUE, score |-> score,
                             total |-> Len(inflight[i].answers)]
               /\ showResult' = TRUE
               /\ submitting' = FALSE
          ELSE UNCHANGED <<result, showResult, submitting>>
    /\ UNCHANGED <<quiz, answers, timeLeft, started, loading, mounted,
                   loadPending, timer, prompts, errors, sentCount,
                   backs>>
    /\ UNCHANGED <<storeVars, promptVars, createVars>>

\* variant: setShowResult(true) moved into the finally block
SubmitFail_ShowsResult(i) ==
    /\ i \in 1..Len(inflight)
    /\ inflight' = RemoveAt(inflight, i)
    /\ errors' = errors + 1
    /\ submitting' = IF mounted THEN FALSE ELSE submitting
    /\ showResult' = IF mounted THEN TRUE ELSE showResult
    /\ UNCHANGED <<quiz, answers, timeLeft, started, loading,
                   result, mounted, loadPending, timer, prompts, sentCount,
                   backs>>
    /\ UNCHANGED <<storeVars, promptVars, createVars>>

\* catch: Alert 'Error'; finally: setSubmitting(false)
SubmitFail(i) ==
    /\ i \in 1..Len(inflight)
    /\ inflight' = RemoveAt(inflight, i)
    /\ errors' = errors + 1
    /\ submitting' = IF mounted THEN FALSE ELSE submitting
    /\ UNCHANGED <<quiz, answers, timeLeft, started, loading, showResult,
                   result, mounted, loadPending, timer, prompts, sentCount,
                   backs>>
    /\ UNCHANGED <<storeVars, promptVars, createVars>>

\* OK button of an 'Error' alert
DismissError ==
    /\ errors > 0
    /\ errors' = errors - 1
    /\ UNCHANGED <<quiz, answers, timeLeft, started, loading, submitting,
                   showResult, result, mounted, loadPending, timer, prompts,
                   inflight, sentCount,
                   backs>>
    /\ UNCHANGED <<storeVars, promptVars, createVars>>

\* router.back(): Done / dismissal of the result dialog, or navigating away
GoBack ==
    /\ mounted
    /\ NoAlert
    /\ backs' = backs + 1
    /\ Unmount
    /\ UNCHANGED <<loadPending, prompts, errors, inflight, sentCount>>
    /\ UNCHANGED <<storeVars, promptVars, createVars>>

\* ---------------------------------------------------------------- Next
Next ==
    \/ \E n \in 1..MaxQuestions, limit \in 0..MaxTimeLimit : LoadSucceed(n, limit)
    \/ LoadFail
    \/ HandleStart
    \/ \E q \in 0..(MaxQuestions - 1), o \in 0..(MaxOptions - 1) : HandleAnswerChange(q, o)
    \/ Tick
    \/ PressSubmit
    \/ \E i \in 1..2 : PromptConfirm(i)
    \/ \E i \in 1..2 : PromptCancel(i)
    \/ \E i \in 1..(MaxRequests + 1), score \in 0..MaxQuestions : SubmitSucceed(i, score)
    \/ \E i \in 1..(MaxRequests + 1) : SubmitFail(i)
    \/ DismissError
    \/ GoBack

Spec == Init /\ [][Next]_vars

\* the same session with a backend that answers every submission successfully
NextReliable ==
    \/ \E n \in 1..MaxQuestions, limit \in 0..MaxTimeLimit : LoadSucceed(n, limit)
    \/ LoadFail
    \/ HandleStart
    \/ \E q \in 0..(MaxQuestions - 1), o \in 0..(MaxOptions - 1) : HandleAnswerChange(q, o)
    \/ Tick
    \/ PressSubmit
    \/ \E i \in 1..2 : PromptConfirm(i)
    \/ \E i \in 1..2 : PromptCancel(i)
    \/ \E i \in 1..(MaxRequests + 1), score \in 0..MaxQuestions : SubmitSucceed(i, score)
    \/ DismissError
    \/ GoBack

SpecReliable == Init /\ [][NextReliable]_vars

\* a session in which the user never presses "Submit Quiz"; a pending
\* timeout fires after its second has passed (weak fairness of Tick)
NextNoPress ==
    \/ \E n \in 1..MaxQuestions, limit \in 0..MaxTimeLimit : LoadSucceed(n, limit)
    \/ LoadFail
    \/ HandleStart
    \/ \E q \in 0..(MaxQuestions - 1), o \in 0..(MaxOptions - 1) : HandleAnswerChange(q, o)
    \/ Tick
    \/ \E i \in 1..2 : PromptConfirm(i)
    \/ \E i \in 1..2 : PromptCancel(i)
    \/ \E i \in 1..(MaxRequests + 1), score \in 0..MaxQuestions : SubmitSucceed(i, score)
    \/ \E i \in 1..(MaxRequests + 1) : SubmitFail(i)
    \/ DismissError
    \/ GoBack

SpecFair == Init /\ [][NextNoPress]_vars /\ WF_vars(Tick)

\* the result dialog for quizzes of 1..MaxTotal questions: the session is
\* taken up after Start, every question answered and Submit Quiz pressed
\* within the first second; the request is in flight
InitDialog ==
    /\ \E t \in 1..MaxTotal :
          /\ quiz = [loaded |-> TRUE, quiz_id |-> RouteId, n |-> t, limit |-> 1]
          /\ answers = [i \in 1..t |-> 0]
          /\ inflight = <<FormData(quiz, answers)>>
    /\ timeLeft = InitialTime(1)
    /\ timer = InitialTime(1)
    /\ started = TRUE
    /\ loading = FALSE
    /\ submitting = TRUE
    /\ showResult = FALSE
    /\ result = NoResult
    /\ mounted = TRUE
    /\ loadPending = FALSE
    /\ prompts = <<>>
    /\ errors = 0
    /\ sentCount = 1
    /\ backs = 0
    /\ InitStore
    /\ InitPrompt
    /\ InitCreate

NextDialog ==
    \/ \E score \in 0..MaxTotal : SubmitSucceed(1, score)
    \/ SubmitFail(1)
    \/ DismissError
    \/ GoBack

SpecDialog == InitDialog /\ [][NextDialog]_vars

SpecAuth == Init /\ [][NextAuth]_vars

SpecPrompt == Init /\ [][NextPrompt]_vars

SpecStore == Init /\ [][NextStore]_vars

SpecCreate == Init /\ [][NextCreate]_vars

SpecQuestions == Init /\ [][NextQuestions]_vars

TypeOK ==
    /\ quiz.n \in 0..MaxQuestions
    /\ timeLeft \in 0..InitialTime(MaxTimeLimit)
    /\ timer \in {NoTimer} \cup 1..InitialTime(MaxTimeLimit)
    /\ Len(prompts) <= 2
    /\ Len(inflight) <= MaxRequests + 1
    /\ sentCount <= MaxRequests + 1
    /\ errors <= MaxRequests + 2
    /\ backs <= 2

\* ======================================================================
\* Properties
\* ======================================================================
AnyUnanswered == \E i \in DOMAIN answers : answers[i] = -1
Running == mounted /\ started /\ timeLeft > 0

\* C1: in one attempt session at most one submission request
\* (POST /quiz/attempt) is ever sent.
C1_AtMostOneRequestSent == sentCount <= 1

\* C2: whenever the remaining time reaches 0 while the attempt is running,
\* exactly one submission request is sent and no confirmation prompt is shown.
C2_TimeoutSubmitsWithoutPrompt ==
    [][(Running /\ mounted' /\ timeLeft' = 0)
          => (sentCount' = sentCount + 1 /\ prompts' = prompts)]_vars

\* C3: at most one submission request is in flight at any time.
C3_AtMostOneInFlight == Len(inflight) <= 1

\* C4: once the result of a successful submission is shown, the remaining
\* time never decreases again.
C4_NoDecreaseAfterSubmitted ==
    [][(mounted /\ showResult /\ mounted') => timeLeft' >= timeLeft]_vars

\* C5: while the attempt is running a timeout is pending for the current
\* remaining time, each tick decreases the remaining time by exactly 1, and
\* nothing else changes it (answer selections and re-renders included).
C5_TickDecrementsByOne ==
    /\ [](Running => timer = timeLeft)
    /\ [][(Running /\ mounted') => (IF Tick THEN timeLeft' = timeLeft - 1
                                               ELSE timeLeft' = timeLeft)]_vars

C5_Witness ==
    /\ Running
    /\ quiz.n = 2
    /\ ~AnyUnanswered
    /\ timeLeft = (quiz.limit * 60) - 2

\* C6: an explicit Submit press shows the 'Incomplete' prompt iff some answer
\* is still -1; with all answered the request is sent directly; a request
\* with unanswered questions is sent only by confirming a prompt, and
\* cancelling sends nothing.
C6_PromptIffUnanswered ==
    /\ [][PressSubmit =>
            IF AnyUnanswered
               THEN Len(prompts') = Len(prompts) + 1 /\ sentCount' = sentCount
               ELSE prompts' = prompts /\ sentCount' = sentCount + 1]_vars
    /\ [][(sentCount' > sentCount
            /\ \E k \in DOMAIN inflight'[Len(inflight')].answers :
                   inflight'[Len(inflight')].answers[k] = -1)
          => Len(prompts') = Len(prompts) - 1]_vars
    /\ [][(\E i \in 1..Len(prompts) : PromptCancel(i))
          => sentCount' = sentCount]_vars

C6_Witness ==
    /\ Running
    /\ Len(prompts) = 1
    /\ sentCount = 0

\* C7: after the quiz has loaded, the answers sequence has length equal to
\* the number of quiz questions in every reachable state.
C7_AnswersLength == quiz.loaded => Len(answers) = quiz.n

C7_Witness ==
    /\ quiz.loaded
    /\ quiz.n = 2
    /\ answers[1] # -1
    /\ answers[2] # -1
    /\ errors > 0
    /\ started

\* C8: right after a successful load of a quiz with N questions and time
\* limit T minutes: answers has length N with every entry -1, the remaining
\* time is T*60, started = false and submitting = false.
C8_FreshAttemptState ==
    [][(mounted /\ loadPending /\ ~loadPending' /\ quiz'.loaded) =>
          /\ Len(answers') = quiz'.n
          /\ \A i \in 1..quiz'.n : answers'[i] = -1
          /\ timeLeft' = quiz'.limit * 60
          /\ ~started'
          /\ ~submitting']_vars

C8_Witness ==
    /\ quiz.loaded
    /\ quiz.n = 2
    /\ quiz.limit = 1
    /\ ~loading
    /\ ~started

\* C9: handleAnswerChange(i, o) with 0 <= i < N sets answer i to o, leaves
\* every other answer, the remaining time and the started/submitting flags
\* unchanged; repeating the same selection changes nothing.
C9_AnswerChangeFrame ==
    [][(Interactive /\ answers' # answers) =>
          \A q \in 0..(quiz.n - 1), o \in 0..(MaxOptions - 1) :
             HandleAnswerChange(q, o) =>
                  /\ Len(answers') = Len(answers)
                  /\ answers'[q + 1] = o
                  /\ \A j \in 1..Len(answers) :
                        j # q + 1 => answers'[j] = answers[j]
                  /\ timeLeft' = timeLeft
                  /\ timer' = timer
                  /\ started' = started
                  /\ submitting' = submitting
                  /\ SetAnswer(answers', q, o) = answers']_vars

C9_Witness ==
    /\ quiz.n = 2
    /\ answers[1] = 1
    /\ answers[2] = 0
    /\ timeLeft < quiz.limit * 60

\* C10: when a submission request fails, an error message is shown, no
\* result is displayed, submitting is false again, started and the answers
\* are unchanged, and the failure itself sends no new request.
C10_FailureIsRecoverable ==
    [][(mounted /\ \E i \in 1..Len(inflight) : SubmitFail(i)) =>
          /\ errors' = errors + 1
          /\ ~showResult'
          /\ ~submitting'
          /\ started' = started
          /\ answers' = answers
          /\ sentCount' = sentCount]_vars

\* C11: when the screen is abandoned (unmounted), the pending timeout is
\* cancelled by that very step, which sends nothing; from then on no timeout
\* is pending, no confirmation prompt is open, and no step changes the
\* remaining time, the started flag or the answers, or sends a submission
\* request; the screen never comes back.
C11_AbandonCancelsTimer ==
    /\ [](~mounted => (timer = NoTimer /\ prompts = <<>>))
    /\ [][(mounted /\ ~mounted') =>
            (timer' = NoTimer /\ sentCount' = sentCount /\ inflight' = inflight)]_vars
    /\ [][~mounted =>
            /\ ~mounted'
            /\ sentCount' = sentCount
            /\ timeLeft' = timeLeft
            /\ started' = started
            /\ answers' = answers]_vars

\* abandoned by navigating back from a loaded quiz before any submission
C11_Witness ==
    /\ ~mounted
    /\ ~loadPending
    /\ backs = 1
    /\ errors = 0
    /\ sentCount = 0

\* C12: while the quiz is loaded and not started (time limit 0 included) no
\* timeout is pending, the remaining time is time_limit_mins * 60, every
\* answer is -1 and nothing was or is being submitted; the only step that
\* makes started true is Start, and started never becomes false again while
\* the screen is mounted.
C12_NotStartedIsInert ==
    /\ []((mounted /\ ~started) =>
            /\ timer = NoTimer
            /\ timeLeft = quiz.limit * 60
            /\ \A i \in DOMAIN answers : answers[i] = -1
            /\ prompts = <<>>
            /\ inflight = <<>>
            /\ sentCount = 0)
    /\ [][(~started /\ started') => HandleStart]_vars
    /\ [][(started /\ mounted') => started']_vars

C12_Witness ==
    /\ mounted
    /\ ~loading
    /\ quiz.loaded
    /\ quiz.limit = 0
    /\ quiz.n = 2
    /\ ~started

\* C13: the step in which the quiz fetch fails signals an error and leaves
\* the session with exactly one navigation back, the screen gone, quiz null,
\* answers empty, no timeout pending and nothing submitted; afterwards the
\* fetch is not retried, no request is sent and no further navigation
\* happens.
C13_LoadFailureIsTerminal ==
    /\ [][(loadPending /\ ~loadPending' /\ errors' = errors + 1) =>
            /\ backs' = 1
            /\ ~mounted'
            /\ quiz' = NoQuiz
            /\ answers' = <<>>
            /\ timer' = NoTimer
            /\ inflight' = <<>>
            /\ sentCount' = 0]_vars
    /\ [][(~mounted /\ ~loadPending) =>
            /\ ~loadPending'
            /\ ~mounted'
            /\ timer' = NoTimer
            /\ sentCount' = sentCount
            /\ backs' = backs]_vars

\* C14: the remaining time is never negative, and no step taken while
\* started is true (tick, answer selection, submit, prompt confirm/cancel,
\* completion of a request) increases it, for time limits 0..MaxTimeLimit.
C14_TimeNonIncreasing ==
    /\ [](timeLeft >= 0)
    /\ [][(started /\ started') => timeLeft' <= timeLeft]_vars

\* the countdown of a one-minute quiz has run down to 0 with an answered
\* question and a failed submission on the way
C14_Witness ==
    /\ mounted
    /\ started
    /\ quiz.limit = 1
    /\ timeLeft = 0
    /\ answers[1] # -1
    /\ errors = 1

\* C15: every step that sends a submission request appends one request whose
\* quiz_id is the loaded quiz's id (the quiz the screen was opened for) and
\* whose answers are the screen's answers at that moment, one entry per
\* question with -1 for the unanswered ones; this includes requests sent by
\* confirming the prompt after further ticks.
C15_RequestCarriesCurrentAnswers ==
    [][(sentCount' > sentCount) =>
          /\ mounted'
          /\ quiz'.loaded
          /\ sentCount' = sentCount + 1
          /\ Len(inflight') = Len(inflight) + 1
          /\ inflight'[Len(inflight')].quiz_id = quiz'.quiz_id
          /\ quiz'.quiz_id = RouteId
          /\ inflight'[Len(inflight')].answers = answers'
          /\ Len(answers') = quiz'.n]_vars

\* a request with an unanswered question was sent from one of two prompts
\* (one opened by Submit, one by the timeout) after the countdown ran out
C15_Witness ==
    /\ mounted
    /\ quiz.n = 2
    /\ quiz.limit = 1
    /\ timeLeft = 0
    /\ Len(inflight) = 1
    /\ inflight[1].answers = <<1, -1>>
    /\ Len(prompts) = 1

\* C17: whenever the result dialog is visible a result is present and a
\* request of this session has completed; the dialog and the result change
\* (on a screen that stays mounted) only in a step that completes a request
\* in flight without raising an error, and then the result shown is the
\* backend's for that request (its total is the request's number of answers,
\* its score at most that).
C17_ResultOnlyAfterSuccess ==
    /\ [](showResult =>
            (mounted /\ result.present /\ sentCount > Len(inflight)))
    /\ [][(mounted' /\ (showResult' # showResult \/ result' # result)) =>
            /\ errors' = errors
            /\ sentCount' = sentCount
            /\ showResult'
            /\ result'.present
            /\ \E i \in 1..Len(inflight) :
                  /\ inflight' = RemoveAt(inflight, i)
                  /\ result'.total = Len(inflight[i].answers)
                  /\ result'.score \in 0..result'.total]_vars

C17_Witness ==
    /\ mounted
    /\ showResult
    /\ result.score = 1
    /\ result.total = 2
    /\ errors = 0
    /\ inflight = <<>>

C16_PercentAndMessage ==
    (showResult /\ result.total > 0 /\ result.score \in 0..result.total) =>
        /\ DisplayedPercent \in 0..100
        /\ 2 * (100 * result.score - DisplayedPercent * result.total) <= result.total
        /\ 2 * (DisplayedPercent * result.total - 100 * result.score) <= result.total
        /\ DisplayedMessage \in {GreatJob, KeepPracticing}
        /\ (DisplayedMessage = GreatJob) <=> (10 * result.score >= 7 * result.total)
        /\ (result.score = 7 /\ result.total = 10) =>
              (DisplayedPercent = 70 /\ DisplayedMessage = GreatJob)

C16_Witness ==
    /\ showResult
    /\ result.score = 7
    /\ result.total = 10
    /\ DisplayedPercent = 70

\* C19: whenever a handleLogout (Home or Profile) comes to its end, whether
\* POST /auth/logout succeeded or failed, the store's user and token are
\* null and the persisted session_token is removed.
C19_LogoutClearsSession ==
    [][(logoutPc.pc \in {"post", "removeItem"}
          /\ logoutPc'.pc \in {"done", "rejected"}) =>
            /\ user' = NoUser
            /\ token' = NoToken
            /\ stored' = NoToken]_vars

\* C20: no request made through the modal has its resolve called more than
\* once; a request that is still unresolved is the one the visible modal
\* will resolve (the modal is shown and the stored callback is its resolve),
\* so that it cannot stay unresolved for ever; OK resolves the modal's
\* request with the text typed, or with undefined when the text is empty,
\* Cancel resolves it with undefined; and after either the modal is hidden
\* and the stored callback is cleared.
C20_PromptResolvedOnce ==
    /\ [](\A k \in DOMAIN requests : requests[k].calls <= 1)
    /\ [](\A k \in DOMAIN requests :
            requests[k].calls = 0 =>
                (promptModal /\ promptCallback = [kind |-> "resolve", req |-> k]))
    /\ [][(promptModal /\ promptCallback.kind = "resolve" /\ HandlePromptSubmit) =>
            /\ requests'[promptCallback.req].calls = 1
            /\ requests'[promptCallback.req].value =
                   (IF promptValue = "" THEN Undefined ELSE promptValue)]_vars
    /\ [][(promptModal /\ promptCallback.kind = "resolve" /\ HandlePromptCancel) =>
            /\ requests'[promptCallback.req].calls = 1
            /\ requests'[promptCallback.req].value = Undefined]_vars
    /\ [][(promptModal /\ (HandlePromptSubmit \/ HandlePromptCancel)) =>
            (~promptModal' /\ promptCallback' = NoCallback)]_vars

\* C21: on Android/Web, pressing OK in the 'Add Video Link' modal with a
\* non-empty URL leaves the title prompt visible ('Video Title', empty
\* input) with the resolve of a new request for that URL installed; and
\* pressing OK in that title prompt with a non-empty title sends exactly one
\* upload of type video_link with that title and that URL.
C21_VideoLinkFlow ==
    /\ [][(promptModal /\ promptCallback.kind = "url" /\ promptValue # ""
            /\ HandlePromptSubmit) =>
            /\ promptModal'
            /\ promptTitle' = "Video Title"
            /\ Len(requests') = Len(requests) + 1
            /\ requests'[Len(requests')].url = promptValue
            /\ promptCallback' = [kind |-> "resolve", req |-> Len(requests')]]_vars
    /\ [][(promptModal /\ promptCallback.kind = "resolve" /\ promptValue # ""
            /\ requests[promptCallback.req].flow = "video_link"
            /\ HandlePromptSubmit) =>
            uploads' = Append(uploads, [type |-> "video_link",
                                        title |-> promptValue,
                                        url |-> requests[promptCallback.req].url])]_vars

\* C22: on the mounted quiz-attempt screen submitting is true exactly in
\* the states where a submission request is in flight.
C22_SubmittingIffInFlight ==
    mounted => (submitting <=> inflight # <<>>)

\* C23: whenever a result with 0 <= score <= total and total > 0 is shown,
\* the positive message is displayed if and only if the displayed (rounded)
\* percentage is at least 70.
C23_MessageAgreesWithPercent ==
    (showResult /\ result.total > 0 /\ result.score \in 0..result.total) =>
        ((DisplayedMessage = GreatJob) <=> (DisplayedPercent >= 70))

\* C24: once loadAuth has completed, in every state where neither a
\* setToken call nor a logout call is in progress, the store's token equals
\* the persisted session_token (both absent or the same value).
C24_TokenMatchesPersisted ==
    (layoutPc = "done" /\ loginPc.pc = "idle"
        /\ logoutPc.pc \notin {"post", "removeItem"}) =>
            token = stored

\* C25: every step in which a loadAuth call finishes (RootLayout's or the
\* one of Index.initAuth; token persisted, none persisted, or the read
\* failing) leaves isLoading false and the user unchanged, and changes the
\* in-memory token only to the persisted value, and only when one exists.
C25_LoadAuthFinishes ==
    [][((layoutPc = "loadAuth" /\ layoutPc' = "done")
          \/ (indexPc = "loadAuth" /\ indexPc' \in {"me", "done"})) =>
            /\ isLoading' = FALSE
            /\ user' = user
            /\ stored' = stored
            /\ token' # token => (stored # NoToken /\ token' = stored)]_vars

\* after a restart with a persisted session, RootLayout's loadAuth has
\* finished first and has set the token
C25_Witness ==
    /\ layoutPc = "done"
    /\ indexPc = "loadAuth"
    /\ ~isLoading
    /\ stored # NoToken
    /\ token = stored
    /\ user = NoUser

\* C26: on the Index screen, GET /auth/me is started only by the step that
\* completes Index's loadAuth, and only with a token present; that step
\* navigates to the role selection, with no request, when no token is
\* present; the tabs are entered only from a pending /auth/me, with the
\* token present and the user set in the same step; a pending /auth/me
\* ends either there or, on failure, in the role selection with the user
\* unchanged.
C26_IndexAuthCheck ==
    [][/\ (indexPc # "me" /\ indexPc' = "me") =>
            /\ indexPc = "loadAuth"
            /\ route = RouteIndex
            /\ isLoading' = FALSE
            /\ token' = (IF stored # NoToken THEN stored ELSE token)
            /\ token' # NoToken
            /\ route' = RouteIndex
       /\ (indexPc = "loadAuth" /\ indexPc' = "done") =>
            /\ isLoading' = FALSE
            /\ token' = NoToken
            /\ route' = RouteRoleSelection
            /\ user' = user
       /\ (route = RouteIndex /\ route' = RouteTabs) =>
            /\ indexPc = "me"
            /\ indexPc' = "done"
            /\ token # NoToken
            /\ token' = token
            /\ user' # NoUser
       /\ (route = RouteIndex /\ route' = RouteRoleSelection) =>
            \/ indexPc = "loadAuth" /\ token' = NoToken
            \/ indexPc = "me" /\ user' = user
       /\ (indexPc = "me" /\ indexPc' = "done") =>
            route' \in {RouteTabs, RouteRoleSelection}]_vars

\* loadAuth has completed with a token and the auth check is waiting for
\* GET /auth/me
C26_Witness ==
    /\ route = RouteIndex
    /\ indexPc = "me"
    /\ ~isLoading
    /\ token # NoToken
    /\ token = stored

\* C27: on every login screen a request is sent only with every required
\* field filled; a step of the login handler changes the store's user and
\* token only when it receives the successful response; the tabs are
\* entered from the login screen only by the handler that received it; and
\* a failed request leaves user, token and route as they were, sets a
\* non-empty error and ends the loading.
C27_LoginOnlyAfterSuccess ==
    [][LET restart == isLoading' # isLoading /\ isLoading'
           success == loginPc.pc = "post" /\ loginPc'.pc = "setItem"
       IN  /\ (loginPc.pc = "idle" /\ loginPc'.pc = "post") =>
                /\ loginForm.screen \in LoginScreens
                /\ loginForm.email # ""
                /\ loginForm.password # ""
                /\ loginForm.screen = "student" => loginForm.batchCode # ""
           /\ ((loginPc' # loginPc \/ loginForm' # loginForm)
                  /\ ~restart /\ ~success) =>
                /\ user' = user
                /\ token' = token
           /\ success =>
                /\ user' # NoUser
                /\ token' # NoToken
                /\ route' = route
           /\ (route = RouteRoleSelection /\ route' = RouteTabs) =>
                loginPc.pc = "setItem"
           /\ (loginPc.pc = "post" /\ loginPc'.pc = "idle" /\ ~restart) =>
                /\ user' = user
                /\ token' = token
                /\ stored' = stored
                /\ route' = route
                /\ loginForm'.error # ""
                /\ loginForm'.loading = FALSE]_vars

\* the student login was sent with its three fields filled and was
\* rejected: the error is shown, nobody is signed in
C27_Witness ==
    /\ route = RouteRoleSelection
    /\ loginForm.screen = "student"
    /\ loginForm.batchCode # ""
    /\ loginForm.error = "Invalid credentials"
    /\ ~loginForm.loading
    /\ loginPc.pc = "idle"
    /\ user = NoUser
    /\ token = NoToken

\* C28: a step sends POST /quiz only when the trimmed title is non-empty,
\* the question list is non-empty and every question's trimmed text and
\* trimmed options are non-empty, and it sends the form as it is; handleSubmit
\* on a form that fails one of these shows an 'Error' alert, sends nothing
\* and leaves title, questions and loading as they were.
C28_PostOnlyWhenValid ==
    [][LET filled(text) == Trim(text) # <<>>
           valid ==
               /\ filled(cqTitle)
               /\ Len(cqQuestions) > 0
               /\ \A k \in 1..Len(cqQuestions) :
                     /\ filled(cqQuestions[k].question)
                     /\ \A o \in 1..Len(cqQuestions[k].options) :
                           filled(cqQuestions[k].options[o])
       IN  /\ cqPosts' # cqPosts =>
                /\ valid
                /\ cqPosts' = Append(cqPosts, [title |-> cqTitle,
                                               questions |-> cqQuestions])
           /\ (CreateHandleSubmit /\ ~valid) =>
                /\ Len(cqAlerts') = Len(cqAlerts) + 1
                /\ cqAlerts'[Len(cqAlerts')].title = "Error"
                /\ cqPosts' = cqPosts
                /\ cqPending' = cqPending
                /\ cqTitle' = cqTitle
                /\ cqQuestions' = cqQuestions
                /\ cqLoading' = cqLoading]_vars

\* a quiz was sent once and its request rejected; then an option was
\* blanked and the next press of Create Quiz shows the validation error
C28_Witness ==
    /\ Len(cqPosts) = 1
    /\ ~cqPending
    /\ cqAlerts = <<ErrorAlert(FillQuestions)>>
    /\ Trim(cqTitle) # <<>>
    /\ \E k \in 1..Len(cqQuestions) : \E o \in 1..Len(cqQuestions[k].options) :
          cqQuestions[k].options[o] = <<Space>>

====
